---- MODULE Spec2Model ----
(***************************************************************************)
(* Seam carving: the Carver of src/src/carving.rs (calculate_energy,       *)
(* find_seam) and the driver of src/src/main.rs (the seam removal loop and *)
(* lazy_remove_indexes_of).                                                 *)
(*                                                                          *)
(* A Vec or slice is a function whose domain is 0..len-1, so that every     *)
(* index of the model is the index of the code; only the Vec<usize> that    *)
(* find_seam returns and lazy_remove_indexes_of takes is a sequence.        *)
(***************************************************************************)
EXTENDS Integers, Sequences, FiniteSets, TLC

VARIABLES
    pc,              \* the operation that ran last / the driver's position
    overflow_checks, \* the build: TRUE panics on integer overflow, FALSE wraps
    capacity,        \* num_pixels given to Carver::new
    width,           \* bitmap.width / the width argument of the last call
    height,          \* bitmap.height / the height argument of the last call
    buffer,          \* bitmap.buffer / the pixels argument / the slice
    energy,          \* Carver::energy
    dist_to,         \* Carver::dist_to
    prev_vertex,     \* Carver::prev_vertex
    seam,            \* the Vec find_seam returned / to_remove
    outcome,         \* how the last operation ended
    overflowed,      \* some i32 sum of the last find_seam left the i32 range
    reads,           \* the indexes the last operation read, per array
    remaining,       \* iterations the driver loop has left
    row              \* the row find_seam's relaxation loop has reached

vars == <<pc, overflow_checks, capacity, width, height, buffer, energy, dist_to,
          prev_vertex, seam, outcome, overflowed, reads, remaining, row>>

----------------------------------------------------------------------------
(* Bounds of the model.                                                     *)

MaxWidth == 4
MaxHeight == 4
\* images of the energy specification: at most MaxPixels pixels, and all of
\* Colours only up to MaxRichPixels pixels (two tones above)
MaxPixels == 12
MaxRichPixels == 9

(* Program constants.                                                       *)

MAX_PIXEL_ENERGY == 255 * 255 * 3
I32_MAX == 2147483647
I32_MIN == (-I32_MAX) - 1

----------------------------------------------------------------------------
(* Vec and slice helpers.                                                   *)

VecLen(v) == Cardinality(DOMAIN v)

\* vec![x; n]
VecOf(x, n) == [i \in 0..(n - 1) |-> x]

\* Vec::truncate
Truncate(v, n) == [i \in {j \in DOMAIN v : j < n} |-> v[i]]

\* &mut slice[..(width * height)]
subset_by_width_and_height(slice, w, h) == Truncate(slice, w * h)

NoReads == [pixels |-> {}, energy |-> {}, dist_to |-> {}, prev_vertex |-> {}]

----------------------------------------------------------------------------
(* calculate_energy                                                         *)

Sq(a) == a * a

\* a variant that forgets to square the differences
ChannelDistNoSquare(p, q) == (p.r - q.r) + (p.g - q.g) + (p.b - q.b)

\* (x1.r - x2.r)^2 + (x1.g - x2.g)^2 + (x1.b - x2.b)^2
ChannelDist(p, q) == Sq(p.r - q.r) + Sq(p.g - q.g) + Sq(p.b - q.b)

\* One store into self.energy: the index, the value, the pixel indexes read.
Store(i, v, rd) == [i |-> i, v |-> v, rd |-> rd]

\* for x in 0..width { energy[x] = MAX_PIXEL_ENERGY }
FirstRowStores(w) == [k \in 1..w |-> Store(k - 1, MAX_PIXEL_ENERGY, {})]

\* a variant whose vertical neighbours are one pixel away instead of one row
InteriorStoreNoStride(y, x, w, pixels) ==
    LET i == y * w + x
        energy_x == ChannelDist(pixels[i - 1], pixels[i + 1])
        energy_y == ChannelDist(pixels[i - 1], pixels[i + 1])
    IN  Store(i, energy_x + energy_y, {i - 1, i + 1})

\* the store of one middle column x of row y
InteriorStore(y, x, w, pixels) ==
    LET i == y * w + x
        energy_x == ChannelDist(pixels[i - 1], pixels[i + 1])
        energy_y == ChannelDist(pixels[i - w], pixels[i + w])
    IN  Store(i, energy_x + energy_y, {i - 1, i + 1, i - w, i + w})

\* the body of "for y in 1..(height - 1)" for one y
MiddleRowStores(y, w, pixels) ==
    LET height_offset == y * w
    IN  <<Store(height_offset, MAX_PIXEL_ENERGY, {})>>
        \o (IF w > 2
            THEN [x \in 1..(w - 2) |-> InteriorStore(y, x, w, pixels)]
            ELSE <<>>)
        \o <<Store(height_offset + w - 1, MAX_PIXEL_ENERGY, {})>>

RECURSIVE MiddleRowsFrom(_, _, _, _)
MiddleRowsFrom(y, w, h, pixels) ==
    IF y >= h - 1 THEN <<>>
    ELSE MiddleRowStores(y, w, pixels) \o MiddleRowsFrom(y + 1, w, h, pixels)

\* for x in (num_pixels - width)..num_pixels { energy[x] = MAX_PIXEL_ENERGY }
LastRowStores(w, h) ==
    [k \in 1..w |-> Store(w * h - w + k - 1, MAX_PIXEL_ENERGY, {})]

\* every store of calculate_energy, in the order of the code
EnergyStores(w, h, pixels) ==
    FirstRowStores(w) \o MiddleRowsFrom(1, w, h, pixels) \o LastRowStores(w, h)

RECURSIVE ApplyStores(_, _, _)
ApplyStores(v, stores, k) ==
    IF k > Len(stores) THEN v
    ELSE ApplyStores([v EXCEPT ![stores[k].i] = stores[k].v], stores, k + 1)

\* the value calculate_energy leaves at index i: the last store to i
StoredEnergyAt(w, h, pixels, i) ==
    LET stores == IF i >= w * h - w THEN LastRowStores(w, h)
                  ELSE IF i < w THEN FirstRowStores(w)
                  ELSE MiddleRowStores(i \div w, w, pixels)
        k == CHOOSE j \in DOMAIN stores : stores[j].i = i
                 /\ \A j2 \in DOMAIN stores : stores[j2].i = i => j2 <= j
    IN  stores[k].v

\* calculate_energy(&mut self, width, height, pixels), for width, height >= 1:
\* what it leaves in self.energy, how it ends, the pixel indexes it read.
calculate_energy(self_energy, w, h, pixels) ==
    LET num_pixels == w * h
        truncated == Truncate(self_energy, num_pixels)
    IN  IF ~(num_pixels <= VecLen(truncated))
        THEN [outcome |-> "assert_capacity", energy |-> truncated, reads |-> {}]
        ELSE IF ~(num_pixels <= VecLen(pixels))
        THEN [outcome |-> "assert_pixels", energy |-> truncated, reads |-> {}]
        ELSE LET stores == EnergyStores(w, h, pixels)
             IN  [outcome |-> "ok",
                  energy |-> ApplyStores(truncated, stores, 1),
                  reads |-> UNION {stores[k].rd : k \in DOMAIN stores}]

----------------------------------------------------------------------------
(* find_seam                                                                *)

\* i32 addition: the wrapped sum, and whether the exact sum left the i32 range
Add32(a, b) ==
    IF b > 0 /\ a > I32_MAX - b
    THEN [v |-> ((a + I32_MIN) + b) + I32_MIN, ovf |-> TRUE]
    ELSE IF b < 0 /\ a < I32_MIN - b
    THEN [v |-> ((a - I32_MIN) + b) - I32_MIN, ovf |-> TRUE]
    ELSE [v |-> a + b, ovf |-> FALSE]

\* *self.energy.get_unchecked(i): past the end of the Vec the read is of
\* whatever lies there (junk)
EnergyRead(self_energy, i, junk) ==
    IF i \in DOMAIN self_energy THEN self_energy[i] ELSE junk

\* The state of a find_seam in progress.
SeamState(d, p) ==
    [dist_to |-> d, prev_vertex |-> p, panicked |-> FALSE, overflowed |-> FALSE,
     rd_energy |-> {}, rd_dist_to |-> {}]

\* a variant that also replaces the predecessor on a tie (>= for >)
relax_edge_on_ties(st, from_pixel, to_pixel, self_energy, junk) ==
    IF st.panicked THEN st
    ELSE
    LET sum == Add32(st.dist_to[from_pixel], EnergyRead(self_energy, to_pixel, junk))
        seen == [st EXCEPT !.rd_energy = @ \cup {to_pixel},
                           !.rd_dist_to = @ \cup {from_pixel, to_pixel},
                           !.overflowed = @ \/ sum.ovf]
    IN  IF sum.ovf /\ overflow_checks
        THEN [seen EXCEPT !.panicked = TRUE]
        ELSE IF st.dist_to[to_pixel] >= sum.v
        THEN [seen EXCEPT !.dist_to[to_pixel] = sum.v,
                          !.prev_vertex[to_pixel] = from_pixel]
        ELSE seen

\* a variant that forgets to add the energy of the target pixel
relax_edge_no_energy(st, from_pixel, to_pixel, self_energy, junk) ==
    IF st.panicked THEN st
    ELSE
    LET sum == Add32(st.dist_to[from_pixel], 0)
        seen == [st EXCEPT !.rd_energy = @ \cup {to_pixel},
                           !.rd_dist_to = @ \cup {from_pixel, to_pixel},
                           !.overflowed = @ \/ sum.ovf]
    IN  IF sum.ovf /\ overflow_checks
        THEN [seen EXCEPT !.panicked = TRUE]
        ELSE IF st.dist_to[to_pixel] > sum.v
        THEN [seen EXCEPT !.dist_to[to_pixel] = sum.v,
                          !.prev_vertex[to_pixel] = from_pixel]
        ELSE seen

\* the closure relax_edge: the sum dist_to[from] + energy[to] panics on
\* overflow in a build with overflow checks and wraps otherwise
relax_edge(st, from_pixel, to_pixel, self_energy, junk) ==
    IF st.panicked THEN st
    ELSE
    LET sum == Add32(st.dist_to[from_pixel], EnergyRead(self_energy, to_pixel, junk))
        seen == [st EXCEPT !.rd_energy = @ \cup {to_pixel},
                           !.rd_dist_to = @ \cup {from_pixel, to_pixel},
                           !.overflowed = @ \/ sum.ovf]
    IN  IF sum.ovf /\ overflow_checks
        THEN [seen EXCEPT !.panicked = TRUE]
        ELSE IF st.dist_to[to_pixel] > sum.v
        THEN [seen EXCEPT !.dist_to[to_pixel] = sum.v,
                          !.prev_vertex[to_pixel] = from_pixel]
        ELSE seen

\* the calls of relax_edge the loop body makes for row y, in order, as
\* <<from_pixel, to_pixel>>
RowEdges(y, w) ==
    LET height_offset == y * w
        last_col_pixel == height_offset + w - 1
    IN  <<<<height_offset, height_offset + w>>,
          <<height_offset, height_offset + w + 1>>>>
        \o (IF w > 2
            THEN [k \in 1..(3 * (w - 2)) |->
                     LET pixel == height_offset + 1 + ((k - 1) \div 3)
                     IN  <<pixel, pixel + w - 1 + ((k - 1) % 3)>>]
            ELSE <<>>)
        \o <<<<last_col_pixel, last_col_pixel + w - 1>>,
             <<last_col_pixel, last_col_pixel + w>>>>

RECURSIVE RelaxEdges(_, _, _, _, _)
RelaxEdges(st, edges, k, self_energy, junk) ==
    IF k > Len(edges) THEN st
    ELSE RelaxEdges(relax_edge(st, edges[k][1], edges[k][2], self_energy, junk),
                    edges, k + 1, self_energy, junk)

\* the body of "for y in 0..(height - 1)" for one y
RelaxRow(st, y, w, self_energy, junk) ==
    RelaxEdges(st, RowEdges(y, w), 1, self_energy, junk)

RECURSIVE RelaxRowsFrom(_, _, _, _, _, _)
RelaxRowsFrom(st, y, w, h, self_energy, junk) ==
    IF y >= h - 1 THEN st
    ELSE RelaxRowsFrom(RelaxRow(st, y, w, self_energy, junk), y + 1, w, h,
                       self_energy, junk)

\* for i in 0..(num_pixels + 2) { dist_to[i] = i32::max_value(); prev_vertex[i] = 0 }
ResetVertices(st, num_pixels) ==
    [st EXCEPT
        !.dist_to = [i \in DOMAIN @ |-> IF i < num_pixels + 2 THEN I32_MAX ELSE @[i]],
        !.prev_vertex = [i \in DOMAIN @ |-> IF i < num_pixels + 2 THEN 0 ELSE @[i]]]

\* for pixel in 0..width { dist_to[pixel] = energy[pixel]; prev_vertex[pixel] = fake_src }
RECURSIVE FirstRowFrom(_, _, _, _, _, _)
FirstRowFrom(st, pixel, w, fake_src, self_energy, junk) ==
    IF pixel >= w THEN st
    ELSE FirstRowFrom(
            [st EXCEPT !.dist_to[pixel] = EnergyRead(self_energy, pixel, junk),
                       !.prev_vertex[pixel] = fake_src,
                       !.rd_energy = @ \cup {pixel}],
            pixel + 1, w, fake_src, self_energy, junk)

\* for pixel in (num_pixels - width)..num_pixels: the edge into fake_dest
RECURSIVE LastRowFrom(_, _, _, _)
LastRowFrom(st, pixel, num_pixels, fake_dest) ==
    IF pixel >= num_pixels THEN st
    ELSE LET seen == [st EXCEPT !.rd_dist_to = @ \cup {fake_dest, pixel}]
         IN  LastRowFrom(
                 IF st.dist_to[fake_dest] > st.dist_to[pixel]
                 THEN [seen EXCEPT !.dist_to[fake_dest] = st.dist_to[pixel],
                                   !.prev_vertex[fake_dest] = pixel]
                 ELSE seen,
                 pixel + 1, num_pixels, fake_dest)

Reverse(s) == [k \in 1..Len(s) |-> s[Len(s) + 1 - k]]

\* while curr != fake_src { if curr != fake_dest { path.push(curr) }; curr =
\* prev_vertex[curr] }: the path pushed, the indexes of prev_vertex read, and
\* whether the walk is still going after `fuel` steps (it then never ends)
RECURSIVE WalkBack(_, _, _, _, _, _, _)
WalkBack(prev, curr, fake_src, fake_dest, path, rd, fuel) ==
    IF curr = fake_src THEN [path |-> path, rd |-> rd, endless |-> FALSE]
    ELSE IF fuel = 0 THEN [path |-> path, rd |-> rd, endless |-> TRUE]
    ELSE WalkBack(prev, prev[curr], fake_src, fake_dest,
                  IF curr # fake_dest THEN Append(path, curr) ELSE path,
                  rd \cup {curr}, fuel - 1)

SeamResult(st, out, path, rd_prev) ==
    [outcome |-> out, dist_to |-> st.dist_to, prev_vertex |-> st.prev_vertex,
     seam |-> path, overflowed |-> st.overflowed,
     reads |-> [pixels |-> {}, energy |-> st.rd_energy,
                dist_to |-> st.rd_dist_to, prev_vertex |-> rd_prev]]

\* what follows the relaxation of the rows: the last row, the walk back
FinishSeam(st, w, h) ==
    LET num_pixels == w * h
        fake_src == num_pixels
        fake_dest == num_pixels + 1
        last == LastRowFrom(st, num_pixels - w, num_pixels, fake_dest)
        walk == WalkBack(last.prev_vertex, fake_dest, fake_src, fake_dest, <<>>,
                         {}, num_pixels + 2)
    IN  IF st.panicked THEN SeamResult(st, "overflow_panic", <<>>, {})
        ELSE IF walk.endless THEN SeamResult(last, "endless", <<>>, walk.rd)
        ELSE SeamResult(last, "ok", Reverse(walk.path), walk.rd)

\* what precedes the relaxation of the rows: the reset, the first row
StartSeam(d, p, w, h, self_energy, junk) ==
    FirstRowFrom(ResetVertices(SeamState(d, p), w * h), 0, w, w * h,
                 self_energy, junk)

\* find_seam(&mut self, width, height) for width >= 1 and height >= 1. junk is
\* what a read past the end of self.energy finds.
find_seam_of_image(d, p, self_energy, w, h, junk) ==
    FinishSeam(RelaxRowsFrom(StartSeam(d, p, w, h, self_energy, junk),
                             0, w, h, self_energy, junk), w, h)

\* find_seam(&mut self, width, height) for width = 0 or height = 0. The
\* ranges 0..(height - 1) and 1..(width - 1) subtract from 0usize: a panic in
\* a build with overflow checks; without them the range runs to usize::MAX
\* and the unchecked accesses leave the allocations, as do the stores of the
\* first row when width exceeds the vertices reserved (undefined behaviour,
\* ub \in {"crash", "ok"}).
find_seam_of_nothing(d, p, self_energy, w, h, junk, ub) ==
    LET reset == ResetVertices(SeamState(d, p), 0)
        first == FirstRowFrom(reset, 0, w, 0, self_energy, junk)
        walk == WalkBack(reset.prev_vertex, 1, 0, 1, <<>>, {}, 2)
        zero == relax_edge(relax_edge(reset, 0, 0, self_energy, junk),
                           0, 1, self_energy, junk)
    IN  IF h = 0 /\ w > VecLen(d)
        THEN SeamResult(reset, ub, <<>>, {})
        ELSE IF h = 0
        THEN SeamResult(first, IF overflow_checks THEN "overflow_panic" ELSE ub,
                        <<>>, {})
        ELSE IF h = 1
        THEN SeamResult(reset, "ok", Reverse(walk.path), walk.rd)
        ELSE SeamResult(zero, IF overflow_checks THEN "overflow_panic" ELSE ub,
                        <<>>, {})

\* find_seam(&mut self, width, height)
find_seam(d, p, self_energy, w, h, junk, ub) ==
    IF ~(w * h <= VecLen(self_energy))
    THEN SeamResult(SeamState(d, p), "assert_capacity", <<>>, {})
    ELSE IF w = 0 \/ h = 0
    THEN find_seam_of_nothing(d, p, self_energy, w, h, junk, ub)
    ELSE find_seam_of_image(d, p, self_energy, w, h, junk)

----------------------------------------------------------------------------
(* The energy specification: one carver, sized for the image, and one call  *)
(* of calculate_energy on an arbitrary image.                               *)

Black == [r |-> 0, g |-> 0, b |-> 0]
White == [r |-> 255, g |-> 255, b |-> 255]
Orange == [r |-> 255, g |-> 101, b |-> 51]
Colours == {Black, White, Orange}
TwoTone == {Black, White}

ImagesOf(n) == [0..(n - 1) -> IF n <= MaxRichPixels THEN Colours ELSE TwoTone]

Unused ==
    /\ overflowed = FALSE
    /\ remaining = 0
    /\ row = 0

InitEnergy ==
    /\ pc = "new"
    /\ overflow_checks \in BOOLEAN
    /\ width \in 1..MaxWidth
    /\ height \in 1..MaxHeight
    /\ width * height <= MaxPixels
    /\ capacity = width * height
    /\ buffer \in ImagesOf(width * height)
    /\ energy = VecOf(0, capacity)
    /\ dist_to = VecOf(I32_MAX, capacity + 2)
    /\ prev_vertex = VecOf(0, capacity + 2)
    /\ seam = <<>>
    /\ outcome = "none"
    /\ reads = NoReads
    /\ Unused

\* carver.calculate_energy(w, h, pixels): what the call does to the carver
CalculateEnergyCall(w, h, pixels) ==
    LET res == calculate_energy(energy, w, h, pixels)
    IN  /\ energy' = res.energy
        /\ outcome' = res.outcome
        /\ reads' = [NoReads EXCEPT !.pixels = res.reads]
        /\ UNCHANGED <<dist_to, prev_vertex, overflowed>>

CalculateEnergy ==
    /\ pc = "new"
    /\ CalculateEnergyCall(width, height, buffer)
    /\ pc' = "calculate_energy"
    /\ UNCHANGED <<overflow_checks, capacity, width, height, buffer, seam,
                   remaining, row>>

NextEnergy == CalculateEnergy

SpecEnergy == InitEnergy /\ [][NextEnergy]_vars

----------------------------------------------------------------------------
(* C3 and C7: the energy map calculate_energy leaves.                       *)

Channels == {"r", "g", "b"}

RECURSIVE SumOver(_, _)
SumOver(S, f) ==
    IF S = {} THEN 0
    ELSE LET c == CHOOSE c \in S : TRUE IN f[c] + SumOver(S \ {c}, f)

\* the pixel at column x of row y
PixelAt(x, y) == buffer[y * width + x]

\* sum over the channels of the squared difference of pixels p and q
SquaredDifference(p, q) ==
    SumOver(Channels, [c \in Channels |-> (p[c] - q[c]) * (p[c] - q[c])])

DualGradient(x, y) ==
    SquaredDifference(PixelAt(x - 1, y), PixelAt(x + 1, y))
        + SquaredDifference(PixelAt(x, y - 1), PixelAt(x, y + 1))

OnBorder(x, y) == x = 0 \/ y = 0 \/ x = width - 1 \/ y = height - 1

EnergyDone == pc = "calculate_energy" /\ outcome = "ok"

\* C3: after calculate_energy on an image of width >= 3 and height >= 2 the
\* energy map has one entry per pixel: 195075 on the border (row 0, last row,
\* column 0, last column) and, for every other pixel, the sum over R, G, B of
\* the squared difference of its left and right neighbours plus that of its
\* upper and lower neighbours.
C3_EnergyMap ==
    (EnergyDone /\ width >= 3 /\ height >= 2) =>
        /\ DOMAIN energy = 0..(width * height - 1)
        /\ \A y \in 0..(height - 1) : \A x \in 0..(width - 1) :
              energy[y * width + x] =
                  IF OnBorder(x, y) THEN 195075 ELSE DualGradient(x, y)

\* a 4x3 image whose two interior pixels got different, non-zero energies
C3_Witness ==
    /\ EnergyDone /\ width = 4 /\ height = 3
    /\ energy[5] > 0 /\ energy[6] > 0 /\ energy[5] # energy[6]
    /\ energy[4] = 195075 /\ energy[7] = 195075

StoredEnergyAtIsLastStore ==
    EnergyDone => \A i \in DOMAIN energy :
        energy[i] = StoredEnergyAt(width, height, buffer, i)

----------------------------------------------------------------------------
(* The seam specifications: a carver sized for the image, its energy map    *)
(* assigned (the field is public, as tests::finds_seam_... does), and one   *)
(* call of find_seam.                                                       *)

\* energy maps of at most MaxSeamPixels pixels, the larger value set only up
\* to MaxRichSeamPixels pixels
MaxSeamPixels == 12
MaxRichSeamPixels == 6
MaxEnergy == 2

SmallEnergies == 0..MaxEnergy
TwoEnergies == {0, 1}
\* energies next to the i32 limit, where a path sum reaches i32::max_value()
LargeEnergies == {0, 1, I32_MAX - 1}

UndefinedOutcomes == {"crash", "ok"}

\* the indexes of self.energy find_seam reads: the first row and the targets
\* of the edges
EnergyIndexesRead(w, h) ==
    (0..(w - 1)) \cup UNION {{RowEdges(y, w)[k][2] : k \in DOMAIN RowEdges(y, w)} :
                                y \in 0..(h - 2)}

\* what a read past the end of self.energy may find (when there is one)
JunkChoices(self_energy, w, h) ==
    IF EnergyIndexesRead(w, h) \subseteq DOMAIN self_energy THEN {0}
    ELSE SmallEnergies \cup {MAX_PIXEL_ENERGY}

\* what the undefined behaviour of a call with a zero dimension may end in
UndefinedChoices(w, h) == IF w = 0 \/ h = 0 THEN UndefinedOutcomes ELSE {"crash"}

InitSeam(rich, poor) ==
    /\ pc = "new"
    /\ overflow_checks \in BOOLEAN
    /\ width \in 0..MaxWidth
    /\ height \in 0..MaxHeight
    /\ width * height <= MaxSeamPixels
    /\ capacity = width * height
    /\ buffer = <<>>
    /\ energy \in [0..(capacity - 1) ->
                      IF capacity <= MaxRichSeamPixels THEN rich ELSE poor]
    /\ dist_to = VecOf(I32_MAX, capacity + 2)
    /\ prev_vertex = VecOf(0, capacity + 2)
    /\ seam = <<>>
    /\ outcome = "none"
    /\ reads = NoReads
    /\ Unused

\* carver.find_seam(w, h): what the call does to the carver, and the seam
FindSeamCall(w, h) ==
    \E junk \in JunkChoices(energy, w, h) : \E ub \in UndefinedChoices(w, h) :
        LET res == find_seam(dist_to, prev_vertex, energy, w, h, junk, ub)
        IN  /\ dist_to' = res.dist_to
            /\ prev_vertex' = res.prev_vertex
            /\ seam' = res.seam
            /\ outcome' = res.outcome
            /\ overflowed' = res.overflowed
            /\ reads' = res.reads
            /\ UNCHANGED energy

FindSeam ==
    /\ pc = "new"
    /\ FindSeamCall(width, height)
    /\ pc' = "find_seam"
    /\ UNCHANGED <<overflow_checks, capacity, width, height, buffer, remaining,
                   row>>

NextSeam == FindSeam

SpecSeam == InitSeam(SmallEnergies, TwoEnergies) /\ [][NextSeam]_vars

SpecSeamLarge == InitSeam(LargeEnergies, TwoEnergies) /\ [][NextSeam]_vars

----------------------------------------------------------------------------
(* C1, C2, C9, C10: the seam find_seam returns.                             *)

SeamDone == pc = "find_seam"

Abs(a) == IF a < 0 THEN -a ELSE a

\* one pixel per row, in row order, neighbouring columns
IsSeam(path) ==
    /\ Len(path) = height
    /\ \A i \in 0..(height - 1) :
          i * width <= path[i + 1] /\ path[i + 1] < (i + 1) * width
    /\ \A i \in 1..(height - 1) :
          Abs((path[i + 1] % width) - (path[i] % width)) <= 1

\* C1: for width >= 1 and height >= 1 within the capacity, find_seam returns
\* exactly `height` indices, the i-th in row i, consecutive ones in columns
\* that differ by at most 1.
C1_SeamOnePixelPerRow ==
    (SeamDone /\ width >= 1 /\ height >= 1) => outcome = "ok" /\ IsSeam(seam)

\* the same for width >= 2 (what the code does keep)
SeamOnePixelPerRowFromWidth2 ==
    (SeamDone /\ width >= 2 /\ height >= 1) => outcome = "ok" /\ IsSeam(seam)

\* a sum of energies that says so when it leaves the i32 range (Over)
Over == 0 - 1
CostAdd(a, b) == IF a = Over \/ b = Over \/ a > I32_MAX - b THEN Over ELSE a + b

RECURSIVE CostOf(_, _)
CostOf(path, k) ==
    IF k > Len(path) THEN 0 ELSE CostAdd(energy[path[k]], CostOf(path, k + 1))

\* every top-to-bottom path: one column per row, a move of at most one column
Paths ==
    LET cols == {c \in [1..height -> 0..(width - 1)] :
                    \A i \in 1..(height - 1) : Abs(c[i + 1] - c[i]) <= 1}
    IN  {[i \in 1..height |-> (i - 1) * width + c[i]] : c \in cols}

PathCosts == {CostOf(path, 1) : path \in Paths}

MinCost == CHOOSE m \in PathCosts : \A c \in PathCosts : m <= c

\* C2 as written: for non-negative energies, width >= 2, height >= 1 and path
\* sums that fit in an i32, the energy along the returned seam is the minimum
\* over all top-to-bottom paths.
C2_SeamIsMinimal ==
    (SeamDone /\ width >= 2 /\ height >= 1 /\ Over \notin PathCosts) =>
        outcome = "ok" /\ CostOf(seam, 1) = MinCost

\* C2, amended: the same when every path sum is below i32::max_value(), the
\* value dist_to is reset to.
C2_SeamIsMinimalBelowSentinel ==
    (SeamDone /\ width >= 2 /\ height >= 1
        /\ \A c \in PathCosts : c # Over /\ c < I32_MAX) =>
        outcome = "ok" /\ CostOf(seam, 1) = MinCost

\* a 3x2 map with an energy next to the i32 limit and paths of different
\* sums, the cheapest one moving sideways
C2_Witness ==
    /\ SeamDone /\ width = 3 /\ height = 2 /\ outcome = "ok"
    /\ \A c \in PathCosts : c # Over /\ c < I32_MAX
    /\ \E i \in DOMAIN energy : energy[i] = I32_MAX - 1
    /\ Cardinality(PathCosts) >= 3
    /\ CostOf(seam, 1) = MinCost
    /\ seam[1] % width # seam[2] % width

\* the pixels of the row above that have an edge to pixel t
Above(t) ==
    {p \in {t - width - 1, t - width, t - width + 1} :
        p >= 0 /\ p \div width = (t \div width) - 1}

Least(S) == CHOOSE m \in S : \A x \in S : m <= x

\* the pixels of the row above that give t its minimal accumulated distance
Nearest(t) ==
    LET via(p) == dist_to[p] + energy[t]
    IN  {p \in Above(t) : \A q \in Above(t) : via(p) <= via(q)}

LastRow == (width * height - width)..(width * height - 1)

\* the last-row pixels of minimal distance
NearestLast == {p \in LastRow : \A q \in LastRow : dist_to[p] <= dist_to[q]}

\* the path that follows prev_vertex back from the pixel fake_dest points to
FollowsPredecessors(path) ==
    /\ Len(path) >= 1
    /\ path[Len(path)] = prev_vertex[width * height + 1]
    /\ prev_vertex[path[1]] = width * height
    /\ \A i \in 1..(Len(path) - 1) : path[i] = prev_vertex[path[i + 1]]

\* C9: where several pixels of the row above give a pixel the same minimal
\* accumulated distance, its predecessor is the lowest-indexed of them; where
\* several last-row pixels share the minimal distance, the lowest-indexed ends
\* the seam; and the seam returned follows the predecessors back from there.
C9_TiesGoToLowestIndex ==
    (SeamDone /\ width >= 1 /\ height >= 1) =>
        /\ outcome = "ok"
        /\ \A t \in width..(width * height - 1) :
              Cardinality(Nearest(t)) >= 2 => prev_vertex[t] = Least(Nearest(t))
        /\ Cardinality(NearestLast) >= 2 =>
              /\ prev_vertex[width * height + 1] = Least(NearestLast)
              /\ seam[Len(seam)] = Least(NearestLast)
        /\ FollowsPredecessors(seam)

\* a seam through a pixel with tied predecessors that ends on a tied last row
C9_Witness ==
    /\ SeamDone /\ width = 3 /\ height = 3 /\ outcome = "ok"
    /\ Cardinality(NearestLast) >= 2
    /\ seam[3] = Least(NearestLast)
    /\ seam[3] > 6
    /\ Cardinality(Nearest(seam[2])) >= 2
    /\ seam[1] = Least(Nearest(seam[2]))
    /\ seam[1] > 0

\* C10: find_seam with width = 0 or height = 0 ends in a panic and returns no
\* seam.
C10_ZeroDimensionsPanic ==
    (SeamDone /\ (width = 0 \/ height = 0)) =>
        outcome \in {"assert_capacity", "overflow_panic"}

----------------------------------------------------------------------------
(* lazy_remove_indexes_of                                                   *)

\* a variant that shifts by one position too few
RemovalTargetOffByOne(idx, offset) == idx - offset

\* let dst = idx - offset - 1
RemovalTarget(idx, offset) == idx - offset - 1

\* The state of a lazy_remove_indexes_of in progress: slice.swap panics on an
\* index outside the slice.
RemoveState(slice) == [slice |-> slice, panicked |-> FALSE, rd |-> {}]

\* for idx in (start + 1)..finish { slice.swap(idx, idx - offset - 1) }
RECURSIVE SwapFrom(_, _, _, _)
SwapFrom(st, idx, finish, offset) ==
    IF st.panicked \/ idx >= finish THEN st
    ELSE LET src == idx
             dst == RemovalTarget(idx, offset)
         IN  IF src \notin DOMAIN st.slice \/ dst \notin DOMAIN st.slice
             THEN [st EXCEPT !.panicked = TRUE]
             ELSE SwapFrom([st EXCEPT !.slice[src] = st.slice[dst],
                                      !.slice[dst] = st.slice[src],
                                      !.rd = @ \cup {src, dst}],
                           idx + 1, finish, offset)

\* for (offset, start) in to_remove.iter().enumerate(), from the given offset
RECURSIVE RemoveFrom(_, _, _)
RemoveFrom(st, to_remove, offset) ==
    IF st.panicked \/ offset >= Len(to_remove) THEN st
    ELSE LET start == to_remove[offset + 1]
             finish == IF offset < Len(to_remove) - 1
                       THEN to_remove[offset + 2]
                       ELSE VecLen(st.slice)
         IN  RemoveFrom(SwapFrom(st, start + 1, finish, offset), to_remove,
                        offset + 1)

\* lazy_remove_indexes_of(slice, to_remove); to_remove is a sequence (1-based)
lazy_remove_indexes_of(slice, to_remove) ==
    LET st == RemoveFrom(RemoveState(slice), to_remove, 0)
    IN  [slice |-> st.slice,
         outcome |-> IF st.panicked THEN "index_panic" ELSE "ok",
         reads |-> st.rd]

----------------------------------------------------------------------------
(* The removal specification: a slice, a strictly increasing list of        *)
(* indexes (an index equal to the length included, as in the test           *)
(* lazy_remove_indexes_of_works_correctly_on_edges), one call.              *)

MaxLen == 5
MaxValue == 1

\* the strictly increasing sequences over S
RECURSIVE Ascending(_)
Ascending(S) ==
    IF S = {} THEN {<<>>}
    ELSE LET m == CHOOSE x \in S : \A y \in S : y <= x
             rest == Ascending(S \ {m})
         IN  rest \cup {Append(q, m) : q \in rest}

InitRemove ==
    /\ pc = "new"
    /\ overflow_checks \in BOOLEAN
    /\ width = 0
    /\ height = 0
    /\ capacity = 0
    /\ \E n \in 0..MaxLen :
          /\ buffer \in [0..(n - 1) -> 0..MaxValue]
          /\ seam \in Ascending(0..n)
    /\ energy = <<>>
    /\ dist_to = <<>>
    /\ prev_vertex = <<>>
    /\ outcome = "none"
    /\ reads = NoReads
    /\ Unused

LazyRemove ==
    /\ pc = "new"
    /\ LET res == lazy_remove_indexes_of(buffer, seam)
       IN  /\ buffer' = res.slice
           /\ outcome' = res.outcome
           /\ reads' = [NoReads EXCEPT !.pixels = res.reads]
    /\ pc' = "lazy_remove"
    /\ UNCHANGED <<overflow_checks, capacity, width, height, energy, dist_to,
                   prev_vertex, seam, overflowed, remaining, row>>

NextRemove == LazyRemove

SpecRemove == InitRemove /\ [][NextRemove]_vars

----------------------------------------------------------------------------
(* C4: what lazy_remove_indexes_of leaves in the slice.                     *)

SeqRange(q) == {q[k] : k \in DOMAIN q}

\* the positions of slice that to_remove does not name
Kept(slice, to_remove) == DOMAIN slice \ SeqRange(to_remove)

\* how many kept positions precede position i
Rank(slice, to_remove, i) ==
    Cardinality({j \in Kept(slice, to_remove) : j < i})

\* C4: for a slice of length n and a strictly increasing list of k indexes
\* into it, after lazy_remove_indexes_of the first n-k entries are the
\* elements that were at the other positions, in their original order.
C4_KeepsTheOthersInOrder ==
    [][(pc' = "lazy_remove" /\ SeqRange(seam) \subseteq DOMAIN buffer) =>
          /\ outcome' = "ok"
          /\ DOMAIN buffer' = DOMAIN buffer
          /\ \A i \in Kept(buffer, seam) :
                buffer'[Rank(buffer, seam, i)] = buffer[i]]_vars

\* three indexes, the first and the last position among them, removed from a
\* slice of five elements of which the two kept ones differ
C4_Witness ==
    /\ pc = "lazy_remove" /\ outcome = "ok"
    /\ VecLen(buffer) = 5 /\ seam = <<0, 2, 4>>
    /\ buffer[0] # buffer[1]

----------------------------------------------------------------------------
(* The reuse specification: one carver built by Carver::new(capacity) and   *)
(* any sequence of calculate_energy and find_seam calls on it, with any     *)
(* positive dimensions and pixel slices of any length. A panic ends it.     *)

MaxCapacity == 4
MaxSide == 2

\* Carver::new(num_pixels)
InitReuse ==
    /\ pc = "new"
    /\ overflow_checks \in BOOLEAN
    /\ capacity \in 0..MaxCapacity
    /\ width = 0
    /\ height = 0
    /\ buffer = <<>>
    /\ energy = VecOf(0, capacity)
    /\ dist_to = VecOf(I32_MAX, capacity + 2)
    /\ prev_vertex = VecOf(0, capacity + 2)
    /\ seam = <<>>
    /\ outcome = "none"
    /\ reads = NoReads
    /\ Unused

Alive == outcome \in {"none", "ok"}

ReuseCalculateEnergy ==
    /\ Alive
    /\ \E w \in 1..MaxSide : \E h \in 1..MaxSide :
       \E len \in 0..(MaxCapacity + 1) :
          /\ CalculateEnergyCall(w, h, VecOf(Black, len))
          /\ width' = w
          /\ height' = h
          /\ buffer' = VecOf(Black, len)
    /\ pc' = "calculate_energy"
    /\ seam' = <<>>
    /\ UNCHANGED <<overflow_checks, capacity, remaining, row>>

ReuseFindSeam ==
    /\ Alive
    /\ \E w \in 1..MaxSide : \E h \in 1..MaxSide :
          /\ FindSeamCall(w, h)
          /\ width' = w
          /\ height' = h
    /\ pc' = "find_seam"
    /\ UNCHANGED <<overflow_checks, capacity, buffer, remaining, row>>

NextReuse == ReuseCalculateEnergy \/ ReuseFindSeam

SpecReuse == InitReuse /\ [][NextReuse]_vars

\* C5: on a carver built with Carver::new(N), after any earlier calls,
\* calculate_energy(width, height, pixels) passes its assertions and completes
\* when width*height <= N and pixels.len() >= width*height, and fails an
\* assertion otherwise.
C5_CapacityIsTheReservedStorage ==
    pc = "calculate_energy" =>
        IF width * height <= capacity /\ VecLen(buffer) >= width * height
        THEN outcome = "ok"
        ELSE outcome \in {"assert_capacity", "assert_pixels"}

\* what the code checks instead: the length the last call truncated energy to
CapacityIsTheTruncatedLength ==
    [][pc' = "calculate_energy" =>
          IF width' * height' <= VecLen(energy)
                /\ VecLen(buffer') >= width' * height'
          THEN outcome' = "ok"
          ELSE outcome' \in {"assert_capacity", "assert_pixels"}]_vars

----------------------------------------------------------------------------
(* The driver: main's seam removal loop on a decoded bitmap, with one       *)
(* carver built for the whole buffer. width_reduction (remaining) is at     *)
(* most the width, so that the loop stops before the width reaches 0.       *)

MaxDriverPixels == 9

Init ==
    /\ pc = "new"
    /\ overflow_checks \in BOOLEAN
    /\ width \in 1..MaxWidth
    /\ height \in 1..MaxHeight
    /\ width * height <= MaxDriverPixels
    /\ capacity = width * height
    /\ buffer \in [0..(capacity - 1) -> TwoTone]
    /\ energy = VecOf(0, capacity)
    /\ dist_to = VecOf(I32_MAX, capacity + 2)
    /\ prev_vertex = VecOf(0, capacity + 2)
    /\ seam = <<>>
    /\ outcome = "none"
    /\ reads = NoReads
    /\ remaining \in 0..width
    /\ overflowed = FALSE
    /\ row = 0

AtLoopHead == pc \in {"new", "lazy_remove"} /\ outcome \in {"none", "ok"}

\* carver.calculate_energy(bitmap.width, bitmap.height, subset_by_width_and_height(..))
DriverCalculateEnergy ==
    /\ AtLoopHead
    /\ remaining > 0
    /\ CalculateEnergyCall(width, height,
                           subset_by_width_and_height(buffer, width, height))
    /\ pc' = "calculate_energy"
    /\ UNCHANGED <<overflow_checks, capacity, width, height, buffer, seam,
                   remaining, row>>

\* let seam = carver.find_seam(bitmap.width, bitmap.height)
DriverFindSeam ==
    /\ pc = "calculate_energy"
    /\ outcome = "ok"
    /\ FindSeamCall(width, height)
    /\ pc' = "find_seam"
    /\ UNCHANGED <<overflow_checks, capacity, width, height, buffer, remaining,
                   row>>

\* lazy_remove_indexes_of(subset_by_width_and_height(..), &seam);
\* bitmap.width = bitmap.width - 1
DriverRemoveSeam ==
    /\ pc = "find_seam"
    /\ outcome = "ok"
    /\ LET res == lazy_remove_indexes_of(
                      subset_by_width_and_height(buffer, width, height), seam)
       IN  /\ buffer' = [i \in DOMAIN buffer |->
                            IF i \in DOMAIN res.slice THEN res.slice[i]
                            ELSE buffer[i]]
           /\ outcome' = res.outcome
           /\ reads' = [NoReads EXCEPT !.pixels = res.reads]
    /\ width' = width - 1
    /\ remaining' = remaining - 1
    /\ pc' = "lazy_remove"
    /\ UNCHANGED <<overflow_checks, capacity, height, energy, dist_to,
                   prev_vertex, seam, overflowed, row>>

\* the loop is over: what is left of the image goes to the encoder
DriverFinish ==
    /\ AtLoopHead
    /\ remaining = 0
    /\ pc' = "finished"
    /\ reads' = NoReads
    /\ UNCHANGED <<overflow_checks, capacity, width, height, buffer, energy,
                   dist_to, prev_vertex, seam, outcome, overflowed, remaining,
                   row>>

Next == DriverCalculateEnergy \/ DriverFindSeam \/ DriverRemoveSeam \/ DriverFinish

Spec == Init /\ [][Next]_vars

\* the logical size of the image the last step worked on
LogicalPixels ==
    IF pc = "lazy_remove" THEN (width + 1) * height ELSE width * height

ReadsWithin(n) ==
    /\ reads.pixels \subseteq 0..(n - 1)
    /\ reads.energy \subseteq 0..(n - 1)
    /\ reads.dist_to \subseteq 0..(n + 1)
    /\ reads.prev_vertex \subseteq 0..(n + 1)

\* C6: in the driver loop, while the width is still >= 1, every step reads the
\* pixel buffer and the energy array only below the current width*height, and
\* dist_to and prev_vertex only below the current width*height + 2.
C6_ReadsStayInTheLogicalImage ==
    pc \in {"calculate_energy", "find_seam", "lazy_remove"} =>
        ReadsWithin(LogicalPixels)

\* the same for the steps on a width of at least 2 (what the code does keep)
ReadsStayInTheLogicalImageFromWidth2 ==
    ((pc \in {"calculate_energy", "find_seam"} /\ width >= 2)
        \/ (pc = "lazy_remove" /\ width >= 1)) =>
        ReadsWithin(LogicalPixels)

----------------------------------------------------------------------------
(* The tall-image specification: find_seam on an image of width 2 and more  *)
(* than eleven thousand rows, one row of the relaxation loop per step. At   *)
(* width 2 calculate_energy reads no pixel: every pixel is on the border.   *)
(* The loop body for row y reads dist_to and energy in rows y and y+1 only, *)
(* so the state keeps these two rows of dist_to, prev_vertex and energy;    *)
(* the walk back, which has no arithmetic, is not part of it.               *)

TallHeight == 11009

\* the pixels of rows y and y+1
RowsAt(y) == {i \in (y * width)..((y + 2) * width - 1) : i < width * height}

\* the energy calculate_energy left in rows y and y+1
EnergyRowsAt(y) == [i \in RowsAt(y) |-> StoredEnergyAt(width, height, buffer, i)]

\* rows y and y+1 of an array of which f holds some rows, reset elsewhere
Slide(f, y, reset) == [i \in RowsAt(y) |-> IF i \in DOMAIN f THEN f[i] ELSE reset]

InitTall ==
    /\ pc = "new"
    /\ overflow_checks \in BOOLEAN
    /\ width = 2
    /\ height \in {TallHeight - 1, TallHeight}
    /\ capacity = width * height
    /\ buffer = <<>>
    /\ energy = <<>>
    /\ dist_to = <<>>
    /\ prev_vertex = <<>>
    /\ seam = <<>>
    /\ outcome = "none"
    /\ reads = NoReads
    /\ Unused

\* the reset and the first row
TallStart ==
    /\ pc = "new"
    /\ LET st == StartSeam(VecOf(I32_MAX, 2 * width), VecOf(0, 2 * width),
                           width, height, EnergyRowsAt(0), 0)
       IN  /\ dist_to' = Slide(st.dist_to, 0, I32_MAX)
           /\ prev_vertex' = Slide(st.prev_vertex, 0, 0)
           /\ reads' = [NoReads EXCEPT !.energy = st.rd_energy]
    /\ energy' = EnergyRowsAt(0)
    /\ row' = 0
    /\ pc' = "relaxing"
    /\ UNCHANGED <<overflow_checks, capacity, width, height, buffer, seam,
                   outcome, overflowed, remaining>>

\* one pass of "for y in 0..(height - 1)"
TallRelaxRow ==
    /\ pc = "relaxing"
    /\ row < height - 1
    /\ LET st == RelaxRow(SeamState(dist_to, prev_vertex), row, width, energy, 0)
       IN  /\ overflowed' = (overflowed \/ st.overflowed)
           /\ reads' = [NoReads EXCEPT !.energy = st.rd_energy,
                                       !.dist_to = st.rd_dist_to]
           /\ IF st.panicked
              THEN /\ outcome' = "overflow_panic"
                   /\ pc' = "find_seam"
                   /\ UNCHANGED <<dist_to, prev_vertex, energy, row>>
              ELSE /\ dist_to' = Slide(st.dist_to, row + 1, I32_MAX)
                   /\ prev_vertex' = Slide(st.prev_vertex, row + 1, 0)
                   /\ energy' = EnergyRowsAt(row + 1)
                   /\ row' = row + 1
                   /\ UNCHANGED <<outcome, pc>>
    /\ UNCHANGED <<overflow_checks, capacity, width, height, buffer, seam,
                   remaining>>

\* the edges of the last row into fake_dest
TallLastRow ==
    /\ pc = "relaxing"
    /\ row = height - 1
    /\ LET fake_dest == width * height + 1
           st == LastRowFrom(
                    SeamState([i \in DOMAIN dist_to \cup {fake_dest} |->
                                  IF i = fake_dest THEN I32_MAX ELSE dist_to[i]],
                              [i \in DOMAIN prev_vertex \cup {fake_dest} |->
                                  IF i = fake_dest THEN 0 ELSE prev_vertex[i]]),
                    width * height - width, width * height, fake_dest)
       IN  /\ dist_to' = st.dist_to
           /\ prev_vertex' = st.prev_vertex
           /\ reads' = [NoReads EXCEPT !.dist_to = st.rd_dist_to]
    /\ outcome' = "ok"
    /\ pc' = "find_seam"
    /\ UNCHANGED <<overflow_checks, capacity, width, height, buffer, energy,
                   seam, overflowed, remaining, row>>

NextTall == TallStart \/ TallRelaxRow \/ TallLastRow

SpecTall == InitTall /\ [][NextTall]_vars

\* C8: for an image of fewer than 20,000 rows whose energy map calculate_energy
\* produced, no sum dist_to[from] + energy[to] of find_seam and no value
\* stored in dist_to leaves the i32 range.
C8_NoOverflowBelow20000Rows ==
    height < 20000 =>
        /\ ~overflowed
        /\ outcome # "overflow_panic"
        /\ \A i \in DOMAIN dist_to : I32_MIN <= dist_to[i] /\ dist_to[i] <= I32_MAX

\* what the code does keep: no overflow within the first 11,008 rows
NoOverflowBelow11009Rows ==
    (height < 11009 \/ row < 11007) =>
        (~overflowed /\ outcome # "overflow_panic")

====
